---- MODULE Spec2Model ----
(***************************************************************************)
(* Model of src/src/selection.ts: the Selection (projection) plan node of  *)
(* the query engine, its constructor and alias counter, its enumerate()    *)
(* generator and its filter-plan builder (filter / buildFilter /           *)
(* buildBinaryFilter / buildComparison).                                   *)
(*                                                                         *)
(* The value compiler (buildValue), the filter plan nodes (EqFilter,       *)
(* NeqFilter, InFilter, NotInFilter, FalseFilter, SeqScanFilter,           *)
(* buildAndFilter, OrFilter) and trimNullish live outside selection.ts.    *)
(* A compiled value is modelled by the attributes selection.ts reads from  *)
(* it; a plan node by the rows it yields.                                  *)
(***************************************************************************)
EXTENDS Integers, Sequences, FiniteSets, TLC

VARIABLES
    selCnt,     \* the module-level alias counter (let selCnt = 0)
    sels,       \* the Selections constructed so far, in construction order
    last,       \* the last plan-construction call and what it returned
    pc,         \* "call" before the filter call of SpecFilter, "done" after
    pred,       \* the predicate AST handed to filter()
    kids,       \* the two sub-predicates of an AND / OR predicate
    res,        \* the plan filter() returned
    sel,        \* the Selection that is enumerated (SpecEnum)
    its         \* the traversals started by enumerate() calls

vars == <<selCnt, sels, last, pc, pred, kids, res, sel, its>>

---------------------------------------------------------------------------
(* Bounds *)

\* rows held by the upstream relation
NumRows == 2
\* largest number of key expressions of an index
MaxIdxExprs == 2
\* Selections constructed in one run of Spec
MaxSels == 2
\* Selections constructed in one run of SpecNest
MaxNest == 11
\* columns of an enumerated Selection
MaxCols == 3
\* concurrent traversals of one Selection
NumIters == 2

RowIds == 1..NumRows

---------------------------------------------------------------------------
(* Compiled values: what buildValue(selection, ast) returns, reduced to    *)
(* the attributes selection.ts reads.                                      *)
(*   ok          buildValue returned (FALSE: it threw)                     *)
(*   isConstant  IValue.isConstant                                         *)
(*   index       NoIndex when IValue.index is undefined, else              *)
(*               index.expressions.length                                  *)
(*   itype       index.expressions[0].type                                 *)
(*   isNull      IValue.type === Types.null                                *)
(*   sat         the upstream rows on which get(row) is truthy             *)

NoIndex == -1

Value(ok, isConstant, index, itype, isNull, sat) ==
    [ok |-> ok, isConstant |-> isConstant, index |-> index, itype |-> itype,
     isNull |-> isNull, sat |-> sat]

NoValue == Value(TRUE, FALSE, NoIndex, "int", FALSE, {})

\* operands of a binary expression: a constant carries no index, the null
\* literal is a constant
Operands ==
    { Value(TRUE, FALSE, i, "int", FALSE, {}) : i \in {NoIndex} \cup (0..MaxIdxExprs) }
    \cup { Value(TRUE, TRUE, NoIndex, "int", n, {}) : n \in BOOLEAN }

\* compiled predicates: a constant one is truthy on every row or on none
ConstBuilts == { Value(TRUE, TRUE, NoIndex, "bool", FALSE, s) : s \in {{}, RowIds} }

PlainBuilts == { Value(TRUE, FALSE, NoIndex, "bool", FALSE, s) : s \in SUBSET RowIds }

IndexedBuilts ==
    { Value(TRUE, FALSE, i, t, FALSE, s) :
        i \in 0..MaxIdxExprs, t \in {"bool", "int"}, s \in SUBSET RowIds }

Builts == ConstBuilts \cup PlainBuilts \cup IndexedBuilts

FailedBuilt == Value(FALSE, FALSE, NoIndex, "bool", FALSE, {})

---------------------------------------------------------------------------
(* Predicate ASTs.  A node is                                              *)
(*   type      the AST tag: "binary_expr", "ref" (any other tag), "empty"  *)
(*             (an object with no property left), "absent" (null,          *)
(*             undefined)                                                  *)
(*   nulls     the object carries null-valued properties                   *)
(*   operator  the operator of a binary_expr                               *)
(*   built     buildValue(this, node)                                      *)
(*   lv, rv    buildValue(this, node.left), buildValue(this, node.right)   *)

Node(type, nulls, operator, built, lv, rv) ==
    [type |-> type, nulls |-> nulls, operator |-> operator, built |-> built,
     lv |-> lv, rv |-> rv]

NoNode == Node("absent", FALSE, "", NoValue, NoValue, NoValue)

EqOps == {"=", "!=", "<>"}
OrderOps == {">", "<", "<=", ">="}
CmpOps == EqOps \cup OrderOps
NullOps == {"IS", "IS NOT"}
InOps == {"IN", "NOT IN"}
BoolOps == {"AND", "OR"}
OtherOps == {"LIKE"}

\* a comparison of two constants does not depend on the row
BothConstant(n) == n.lv.isConstant /\ n.rv.isConstant

AtomPreds ==
    { n \in { Node("binary_expr", FALSE, o, b, l, r) :
                o \in CmpOps \cup NullOps \cup InOps \cup OtherOps,
                b \in Builts, l \in Operands, r \in Operands } :
        BothConstant(n) => n.built.sat \in {{}, RowIds} }

LeafPreds ==
    { Node(t, z, "", b, NoValue, NoValue) :
        t \in {"ref"}, z \in BOOLEAN, b \in Builts \cup {FailedBuilt} }
    \cup { Node("empty", TRUE, "", b, NoValue, NoValue) : b \in Builts \cup {FailedBuilt} }
    \cup { Node("absent", FALSE, "", NoValue, NoValue, NoValue) }

\* the sub-predicates of AND / OR: comparisons, null tests, memberships and
\* leaves over an indexed or plain column and a literal
CombOperands == { v \in Operands : v.index \in {NoIndex, 1} /\ ~v.isNull }

CombAtoms ==
    { n \in { Node("binary_expr", FALSE, o, b, l, Value(TRUE, TRUE, NoIndex, "int", o = "IS", {})) :
                o \in {"=", "<", "IS", "IN"},
                b \in ConstBuilts \cup PlainBuilts, l \in CombOperands } :
        BothConstant(n) => n.built.sat \in {{}, RowIds} }
    \cup { Node("ref", FALSE, "", b, NoValue, NoValue) : b \in ConstBuilts \cup PlainBuilts }

\* the compiled value of A AND B / A OR B is truthy where both / either is
Combine(o, a, b) == IF o = "AND" THEN a.built.sat \cap b.built.sat
                    ELSE a.built.sat \cup b.built.sat

CombBuilts(o, a, b) ==
    { v \in Builts : /\ v.sat = Combine(o, a, b)
                     /\ v.isConstant => (a.built.isConstant /\ b.built.isConstant) }

---------------------------------------------------------------------------
(* Plans: what the builders return.                                        *)
(*   kind   Self (the Selection itself), False, Eq, Neq, In, NotIn, And,   *)
(*          Or, SeqScan, or Error (the builder threw err)                  *)
(*   key    the value an index-backed node is keyed on: "built" (the whole *)
(*          predicate), "left", "right"                                    *)
(*   keyIdx the number of key expressions of that value's index            *)
(*   rows   the upstream rows enumerate() yields                           *)
(*   compiled  buildValue was called                                       *)

Plan(kind, key, keyIdx, rows) ==
    [kind |-> kind, key |-> key, keyIdx |-> keyIdx, rows |-> rows, err |-> "",
     compiled |-> TRUE]

Fail(err) ==
    [kind |-> "Error", key |-> "none", keyIdx |-> 0, rows |-> {}, err |-> err,
     compiled |-> TRUE]

\* the Selection filter() is called on, as a plan: it yields every row
This == [kind |-> "Self", key |-> "none", keyIdx |-> 0, rows |-> RowIds,
         err |-> "", compiled |-> FALSE]

NoPlan == [kind |-> "None", key |-> "none", keyIdx |-> 0, rows |-> {},
           err |-> "", compiled |-> FALSE]

IsError(p) == p.kind = "Error"

\* new EqFilter(value, [cst]): an index lookup of one constant; an index of
\* another number of key expressions is an internal-invariant failure
EqFilter(base, value, key, sat) ==
    IF value.index # 1 THEN Fail("InternalInvariant")
    ELSE Plan("Eq", key, value.index, base.rows \cap sat)

NeqFilter(base, value, key, sat) ==
    IF value.index # 1 THEN Fail("InternalInvariant")
    ELSE Plan("Neq", key, value.index, base.rows \cap sat)

InFilter(base, value, key, sat) == Plan("In", key, value.index, base.rows \cap sat)

NotInFilter(base, value, key, sat) == Plan("NotIn", key, value.index, base.rows \cap sat)

\* new FalseFilter(this): yields nothing, hasItem is always false
FalseFilter(base) == Plan("False", "none", 0, {})

\* new SeqScanFilter(this, value): the rows of this on which value is truthy
SeqScanFilter(base, value) == Plan("SeqScan", "none", 0, base.rows \cap value.sat)

\* buildAndFilter(left, right): the rows both yield
buildAndFilter(l, r) == Plan("And", "none", 0, l.rows \cap r.rows)

\* new OrFilter(left, right): the rows either yields, each once
OrFilter(l, r) == Plan("Or", "none", 0, l.rows \cup r.rows)

\* hasItem(x) of a plan node: x would be yielded by enumerate()
hasItem(p, x) == x \in p.rows

---------------------------------------------------------------------------
(* The filter-plan builder of Selection                                    *)

buildValue(n) == n.built

\* return this, after buildValue was called
ReturnThis(base) == [base EXCEPT !.compiled = TRUE]

\* value.get(null), as a condition
GetNull(v) == v.sat = RowIds

\* value.convert(DataType.bool).get(null), as a condition
ToBool(v) == v.sat = RowIds

\* trimNullish(filter): the same object without its null-valued properties
trimNullish(n) == [n EXCEPT !.nulls = FALSE]

buildComparison(base, n) ==
    LET leftValue == n.lv
        rightValue == n.rv
    IN  IF leftValue.isConstant /\ rightValue.isConstant
        THEN IF GetNull(buildValue(n)) THEN ReturnThis(base) ELSE FalseFilter(base)
        ELSE IF /\ n.operator \in {"=", "!=", "<>"}
                /\ leftValue.index # NoIndex
                /\ rightValue.isConstant
        THEN IF n.operator = "="
             THEN EqFilter(base, leftValue, "left", buildValue(n).sat)
             ELSE NeqFilter(base, leftValue, "left", buildValue(n).sat)
        ELSE IF /\ n.operator \in {"=", "!=", "<>"}
                /\ rightValue.index # NoIndex
                /\ leftValue.isConstant
        THEN IF n.operator = "="
             THEN EqFilter(base, rightValue, "right", buildValue(n).sat)
             ELSE NeqFilter(base, rightValue, "right", buildValue(n).sat)
        ELSE SeqScanFilter(base, buildValue(n))

\* case 'IS' / 'IS NOT'
buildNullTest(base, n) ==
    IF ~n.rv.isNull THEN Fail("NotSupported")
    ELSE IF n.lv.index # NoIndex
    THEN IF n.operator = "IS"
         THEN EqFilter(base, n.lv, "left", buildValue(n).sat)
         ELSE NeqFilter(base, n.lv, "left", buildValue(n).sat)
    ELSE SeqScanFilter(base, buildValue(n))

\* the same without the length test of line 197
buildInAnyIndex(base, n) ==
    IF n.rv.isConstant /\ n.lv.index # NoIndex
    THEN IF n.operator = "IN"
         THEN InFilter(base, n.lv, "left", buildValue(n).sat)
         ELSE NotInFilter(base, n.lv, "left", buildValue(n).sat)
    ELSE SeqScanFilter(base, buildValue(n))

\* case 'IN' / 'NOT IN'
buildIn(base, n) ==
    IF n.rv.isConstant /\ n.lv.index = 1
    THEN IF n.operator = "IN"
         THEN InFilter(base, n.lv, "left", buildValue(n).sat)
         ELSE NotInFilter(base, n.lv, "left", buildValue(n).sat)
    ELSE SeqScanFilter(base, buildValue(n))

RECURSIVE buildFilter(_, _, _)

\* the same with the right side built against the left side's plan
buildAndOrChained(base, n, ks) ==
    LET leftFilter == buildFilter(base, ks[1], <<>>)
        rightFilter == IF IsError(leftFilter) THEN leftFilter
                       ELSE buildFilter(leftFilter, ks[2], <<>>)
    IN  IF IsError(leftFilter) THEN leftFilter
        ELSE IF IsError(rightFilter) THEN rightFilter
        ELSE IF n.operator = "AND" THEN buildAndFilter(leftFilter, rightFilter)
        ELSE OrFilter(leftFilter, rightFilter)

\* case 'AND' / 'OR': both sides are built against this
buildAndOr(base, n, ks) ==
    LET leftFilter == buildFilter(base, ks[1], <<>>)
        rightFilter == buildFilter(base, ks[2], <<>>)
    IN  IF IsError(leftFilter) THEN leftFilter
        ELSE IF IsError(rightFilter) THEN rightFilter
        ELSE IF n.operator = "AND" THEN buildAndFilter(leftFilter, rightFilter)
        ELSE OrFilter(leftFilter, rightFilter)

buildBinaryFilter(base, n, ks) ==
    CASE n.operator \in {"=", ">", "<", "<=", ">="} -> buildComparison(base, n)
      [] n.operator \in {"AND", "OR"} -> buildAndOr(base, n, ks)
      [] n.operator \in {"IS", "IS NOT"} -> buildNullTest(base, n)
      [] n.operator \in {"IN", "NOT IN"} -> buildIn(base, n)
      [] OTHER -> SeqScanFilter(base, buildValue(n))

buildFilter(base, n, ks) ==
    LET built == buildValue(n)
    IN  IF ~built.ok THEN Fail("CompileError")
        ELSE IF built.index # NoIndex
        THEN IF built.index # 1 THEN Fail("InternalInvariant")
             ELSE IF built.itype # "bool" THEN Fail("CastError")
             ELSE EqFilter(base, built, "built", built.sat)
        ELSE IF built.isConstant
        THEN IF ToBool(built) THEN ReturnThis(base) ELSE FalseFilter(base)
        ELSE IF n.type = "binary_expr" THEN buildBinaryFilter(base, n, ks)
        ELSE Fail("NotSupported")

\* the same without the test of line 121
filterAlwaysBuilds(base, n, ks) == buildFilter(base, trimNullish(n), ks)

\* Selection.filter
filter(base, n, ks) ==
    IF n.type = "absent" THEN base
    ELSE buildFilter(base, trimNullish(n), ks)

---------------------------------------------------------------------------
(* Selections.  A Selection is                                             *)
(*   selPrefix    "s" + counter (explicit column list), "" (full schema)   *)
(*   base         the relation it wraps: 0 is the source table, k > 0 the  *)
(*                k-th Selection constructed                               *)
(*   columns      the ids of its columns, in order                         *)
(*   columnsById  id -> position in columns of the column stored last      *)
(*                under that id                                            *)

NoSelection == [selPrefix |-> "", base |-> 0, columns |-> <<>>, columnsById |-> <<>>]

\* an entry {expr, as} of an explicit column list: id is the id of the
\* compiled expr, ok tells whether buildValue(base, expr) returns
Col(id, as, ok) == [id |-> id, as |-> as, ok |-> ok]

\* the explicit column lists handed to the constructor
Whats == { <<>>,
           << Col("a", "", TRUE) >>,
           << Col("a", "", TRUE), Col("", "b", TRUE) >>,
           << Col("a", "", TRUE), Col("c", "", FALSE) >> }

\* the schemas handed to the constructor: the ids of the fields
Schemas == { << "a", "b" >> }

\* col = buildValue(base, s.expr); if (s.as) col = col.setId(s.as)
ColId(s) == IF s.as # "" THEN s.as ELSE s.id

\* this.columnsById[col.id] = col, for every column in order
ById(columns) ==
    [ id \in { columns[i] : i \in DOMAIN columns } |->
        CHOOSE i \in DOMAIN columns :
            /\ columns[i] = id
            /\ \A j \in DOMAIN columns : columns[j] = id => j <= i ]

\* the for loop of lines 46-54: the columns pushed, and whether a
\* buildValue call threw
RECURSIVE CompileColumns(_, _, _)
CompileColumns(what, i, acc) ==
    IF i > Len(what) THEN [threw |-> FALSE, columns |-> acc]
    ELSE IF ~what[i].ok THEN [threw |-> TRUE, columns |-> acc]
    ELSE CompileColumns(what, i + 1, Append(acc, ColId(what[i])))

Threw(err, cnt) == [err |-> err, sel |-> NoSelection, cnt |-> cnt]

\* the same with the counter taken before the columns are compiled
ConstructorCountsFirst(base, what, cnt) ==
    IF Len(what) = 0 THEN Threw("QueryError", cnt)
    ELSE LET compiled == CompileColumns(what, 1, <<>>)
             columns == compiled.columns
         IN  IF compiled.threw THEN Threw("CompileError", cnt + 1)
             ELSE [err |-> "",
                   sel |-> [selPrefix |-> "s" \o ToString(cnt), base |-> base,
                            columns |-> columns, columnsById |-> ById(columns)],
                   cnt |-> cnt + 1]

\* new Selection(base, what) with an explicit column list, the counter being
\* cnt: the error thrown if any, the Selection, and the counter afterwards
Constructor(base, what, cnt) ==
    IF Len(what) = 0 THEN Threw("QueryError", cnt)
    ELSE LET compiled == CompileColumns(what, 1, <<>>)
             columns == compiled.columns
         IN  IF compiled.threw THEN Threw("CompileError", cnt)
             ELSE [err |-> "",
                   sel |-> [selPrefix |-> "s" \o ToString(cnt), base |-> base,
                            columns |-> columns, columnsById |-> ById(columns)],
                   cnt |-> cnt + 1]

\* the same with a prefix minted from the counter
SchemaConstructorCounts(base, schema, cnt) ==
    [err |-> "",
     sel |-> [selPrefix |-> "s" \o ToString(cnt), base |-> base, columns |-> schema,
              columnsById |-> ById(schema)],
     cnt |-> cnt + 1]

\* new Selection(base, schema): one Evaluator per field, empty prefix
SchemaConstructor(base, schema, cnt) ==
    [err |-> "",
     sel |-> [selPrefix |-> "", base |-> base, columns |-> schema,
              columnsById |-> ById(schema)],
     cnt |-> cnt]

\* the select argument: '*' or an explicit column list
Star == [star |-> TRUE, list |-> <<>>]
List(what) == [star |-> FALSE, list |-> what]
Selects == {Star} \cup { List(w) : w \in Whats }

\* buildSelection(on, select): the error thrown if any, whether a Selection
\* was created, that Selection, the counter afterwards
buildSelection(on, select, cnt) ==
    IF select.star
    THEN [err |-> "", created |-> FALSE, sel |-> NoSelection, cnt |-> cnt]
    ELSE LET r == Constructor(on, select.list, cnt)
         IN  [err |-> r.err, created |-> r.err = "", sel |-> r.sel, cnt |-> r.cnt]

\* a call and its outcome: the operation, the relation it was called on, the
\* error thrown ("" when it returned) and the relation returned (0 the
\* source table, k > 0 the k-th Selection, -1 a filter plan or nothing)
Call(op, on, what, err, ret) ==
    [op |-> op, on |-> on, what |-> what, err |-> err, ret |-> ret]

NoCall == Call("none", 0, <<>>, "", -1)

---------------------------------------------------------------------------
(* SpecFilter: one filter() call on a Selection, for every predicate of    *)
(* the bounded sets                                                        *)

NoKids == <<NoNode, NoNode>>

InitFilter ==
    /\ selCnt = 0 /\ sels = <<>> /\ last = NoCall
    /\ sel = NoSelection /\ its = <<>>
    /\ pc = "call"
    /\ res = NoPlan
    /\ \/ /\ pred \in AtomPreds \cup LeafPreds
          /\ kids = NoKids
       \/ \E o \in BoolOps, a \in CombAtoms, b \in CombAtoms :
             /\ kids = <<a, b>>
             /\ pred \in { Node("binary_expr", FALSE, o, v, a.built, b.built) :
                             v \in CombBuilts(o, a, b) }

FilterCall ==
    /\ pc = "call"
    /\ res' = filter(This, pred, kids)
    /\ pc' = "done"
    /\ UNCHANGED <<selCnt, sels, last, pred, kids, sel, its>>

NextFilter == FilterCall

SpecFilter == InitFilter /\ [][NextFilter]_vars

---------------------------------------------------------------------------
(* Spec: sequences of plan-construction calls                              *)

\* the predicates handed to filter() in Spec
SmallPreds ==
    { Node("absent", FALSE, "", NoValue, NoValue, NoValue),
      Node("binary_expr", FALSE, "=", Value(TRUE, FALSE, NoIndex, "bool", FALSE, {1}),
           Value(TRUE, FALSE, 1, "int", FALSE, {}),
           Value(TRUE, TRUE, NoIndex, "int", FALSE, {})) }

Init ==
    /\ selCnt = 0 /\ sels = <<>> /\ last = NoCall
    /\ pc = "done" /\ pred = NoNode /\ kids = NoKids /\ res = NoPlan
    /\ sel = NoSelection /\ its = <<>>

\* buildSelection(on, select), which Selection.select(select) calls on this
BuildSelection(on, select) ==
    LET r == buildSelection(on, select, selCnt)
    IN  /\ r.created => Len(sels) < MaxSels
        /\ selCnt' = r.cnt
        /\ sels' = IF r.created THEN Append(sels, r.sel) ELSE sels
        /\ last' = Call(IF select.star THEN "select*" ELSE "select", on, select.list,
                        r.err,
                        IF r.err # "" THEN -1
                        ELSE IF r.created THEN Len(sels) + 1 ELSE on)
        /\ UNCHANGED <<pc, pred, kids, res, sel, its>>

\* new Selection(base, schema)
NewFromSchema(base, schema) ==
    LET r == SchemaConstructor(base, schema, selCnt)
    IN  /\ Len(sels) < MaxSels
        /\ selCnt' = r.cnt
        /\ sels' = Append(sels, r.sel)
        /\ last' = Call("schema", base, <<>>, r.err, Len(sels) + 1)
        /\ UNCHANGED <<pc, pred, kids, res, sel, its>>

\* sels[on].filter(p)
Filter(on, p) ==
    LET plan == filter(This, p, NoKids)
    IN  /\ pred' = p
        /\ kids' = NoKids
        /\ res' = plan
        /\ last' = Call("filter", on, <<>>, plan.err,
                        IF plan.kind = "Self" THEN on ELSE -1)
        /\ UNCHANGED <<selCnt, sels, pc, sel, its>>

Next ==
    \/ \E on \in 0..Len(sels), select \in Selects : BuildSelection(on, select)
    \/ \E base \in 0..Len(sels), schema \in Schemas : NewFromSchema(base, schema)
    \/ \E on \in 1..Len(sels), p \in SmallPreds : Filter(on, p)

Spec == Init /\ [][Next]_vars

---------------------------------------------------------------------------
(* SpecNest: explicit-list Selections built one after the other, each over *)
(* the source table or over the Selection built before it                  *)

\* getId(item) of the r-th row of the source table
BaseId(r) == IF r % 2 = 1 THEN "r" \o ToString(r)
             ELSE "0r" \o ToString(r - 1)

\* getId(item) of the row the k-th relation yields for source row r
\* (line 97: this.selPrefix + getId(item))
RECURSIVE Identity(_, _)
Identity(k, r) ==
    IF k = 0 THEN BaseId(r)
    ELSE sels[k].selPrefix \o Identity(sels[k].base, r)

SelectNested(on) ==
    LET r == buildSelection(on, List(<< Col("a", "", TRUE) >>), selCnt)
    IN  /\ Len(sels) < MaxNest
        /\ selCnt' = r.cnt
        /\ sels' = Append(sels, r.sel)
        /\ last' = Call("select", on, <<>>, r.err, Len(sels) + 1)
        /\ UNCHANGED <<pc, pred, kids, res, sel, its>>

NextNest == \E on \in {0, Len(sels)} : SelectNested(on)

SpecNest == Init /\ [][NextNest]_vars

---------------------------------------------------------------------------
(* SpecEnum: traversals of one Selection, started by separate enumerate()  *)
(* calls and pulled in any order                                           *)

\* the ids of the columns of the enumerated Selection
ColIdSet == {"", "a", "column0", "column1"}

ColumnLists ==
    UNION { [1..n -> ColIdSet] : n \in 1..MaxCols }

\* the body of the do ... while of lines 90-92, cid being the counter: the
\* name found and the counter afterwards
RECURSIVE SynthNameLoop(_, _)
SynthNameLoop(ids, cid) ==
    IF ("column" \o ToString(cid)) \in ids THEN SynthNameLoop(ids, cid + 1)
    ELSE [nm |-> "column" \o ToString(cid), cid |-> cid + 1]

\* the same without the loop
SynthNameOnce(ids, cid) == [nm |-> "column" \o ToString(cid), cid |-> cid + 1]

\* lines 89-93
SynthName(ids, cid) == SynthNameLoop(ids, cid)

\* this.columns.map(...) of lines 84-94, from column i on, cid being the
\* counter and acc the keys found so far: the keys and the counter
RECURSIVE MapColumnIds(_, _, _, _)
MapColumnIds(columns, i, cid, acc) ==
    IF i > Len(columns) THEN [columnIds |-> acc, cid |-> cid]
    ELSE IF columns[i] # "" THEN MapColumnIds(columns, i + 1, cid, Append(acc, columns[i]))
    ELSE LET ids == { columns[j] : j \in DOMAIN columns }
             s == SynthName(ids, cid)
         IN  MapColumnIds(columns, i + 1, s.cid, Append(acc, s.nm))

\* col.get(item) of column i on source row r ("undefined" when the
\* expression yields no value)
Get(i, r) == IF (i + r) % 3 = 0 THEN "undefined"
             ELSE "v" \o ToString(i) \o "_" \o ToString(r)

\* x ?? null
OrNull(x) == IF x = "undefined" THEN "null" ELSE x

\* lines 96-102: the row built for source row r; a later column overwrites
\* an earlier one of the same key
Row(s, columnIds, r) ==
    [id |-> s.selPrefix \o BaseId(r),
     cells |-> [ k \in { columnIds[i] : i \in DOMAIN columnIds } |->
                   LET i == CHOOSE i \in DOMAIN columnIds :
                                /\ columnIds[i] = k
                                /\ \A j \in DOMAIN columnIds : columnIds[j] = k => j <= i
                   IN  OrNull(Get(i, r)) ]]

\* a traversal: st is "new" (the generator was created and not pulled yet),
\* "running" or "done"; cid and columnIds are its locals; pos is the number
\* of rows pulled from this.base.enumerate(); out is what it yielded
NewTraversal == [st |-> "new", cid |-> 0, columnIds |-> <<>>, pos |-> 0, out |-> <<>>]

\* the same with the counter of the traversals already started
cidShared(ts) ==
    IF ts = <<>> THEN 0
    ELSE LET c == { ts[i].cid : i \in DOMAIN ts }
         IN  CHOOSE m \in c : \A x \in c : x <= m

\* let cid = 0 (line 83), ts being the other traversals
cidInit(ts) == 0

\* lines 82-94, run at the first pull of a traversal
Started(ts) ==
    LET m == MapColumnIds(sel.columns, 1, cidInit(ts), <<>>)
    IN  [st |-> "running", cid |-> m.cid, columnIds |-> m.columnIds, pos |-> 0,
         out |-> <<>>]

InitEnum ==
    /\ selCnt = 1 /\ sels = <<>> /\ last = NoCall
    /\ pc = "done" /\ pred = NoNode /\ kids = NoKids /\ res = NoPlan
    /\ \E columns \in ColumnLists :
          sel = [selPrefix |-> "s0", base |-> 0, columns |-> columns,
                 columnsById |-> ById(columns)]
    /\ its = <<>>

\* sel.enumerate(): a generator is created, its body not yet run
Enumerate ==
    /\ Len(its) < NumIters
    /\ its' = Append(its, NewTraversal)
    /\ UNCHANGED <<selCnt, sels, last, pc, pred, kids, res, sel>>

\* next() on traversal t: the body runs to the next yield, or to its end
Pull(t) ==
    /\ its[t].st # "done"
    /\ LET it == IF its[t].st = "new" THEN Started(its) ELSE its[t]
       IN  its' = [its EXCEPT ![t] =
                     IF it.pos < NumRows
                     THEN [it EXCEPT !.pos = it.pos + 1,
                                     !.out = Append(it.out, Row(sel, it.columnIds, it.pos + 1))]
                     ELSE [it EXCEPT !.st = "done"]]
    /\ UNCHANGED <<selCnt, sels, last, pc, pred, kids, res, sel>>

NextEnum == Enumerate \/ \E t \in 1..Len(its) : Pull(t)

SpecEnum == InitEnum /\ [][NextEnum]_vars

---------------------------------------------------------------------------
(* Claims about enumerate() (checked under SpecEnum)                       *)

Explicit == { sel.columns[i] : i \in DOMAIN sel.columns } \ {""}

Synthesized == { i \in DOMAIN sel.columns : sel.columns[i] = "" }

ColumnN(n) == "column" \o ToString(n)

\* C3: a column with an id is output under that id; a column without is
\* output under "column" + N, N being the smallest number whose key is no
\* explicit id and was not given to an earlier column, so that the keys
\* synthesized differ from every explicit id and from each other; the ids
\* "a", "", "" give "a", "column0", "column1".
C3_OutputKeys ==
    \A t \in 1..Len(its) :
        its[t].st # "new" =>
          LET K == its[t].columnIds
          IN  /\ Len(K) = Len(sel.columns)
              /\ \A i \in DOMAIN sel.columns \ Synthesized : K[i] = sel.columns[i]
              /\ \A i \in Synthesized :
                   \E n \in 0..(2 * MaxCols) :
                      /\ K[i] = ColumnN(n)
                      /\ K[i] \notin Explicit
                      /\ \A j \in Synthesized : j < i => K[j] # K[i]
                      /\ \A m \in 0..(n - 1) :
                            \/ ColumnN(m) \in Explicit
                            \/ \E j \in Synthesized : j < i /\ K[j] = ColumnN(m)
              /\ sel.columns = <<"a", "", "">> => K = <<"a", "column0", "column1">>

\* C3 witness: explicit ids column0 and column1 are skipped
C3_Witness ==
    \E t \in 1..Len(its) :
        /\ its[t].st # "new"
        /\ sel.columns = <<"column1", "", "column0">>
        /\ its[t].columnIds = <<"column1", "column2", "column0">>

\* what one traversal, pulled to its end alone, yields
SingleTraversal ==
    LET columnIds == MapColumnIds(sel.columns, 1, 0, <<>>).columnIds
    IN  [ r \in 1..NumRows |-> Row(sel, columnIds, r) ]

\* C5: every traversal, however its pulls are interleaved with those of the
\* others, has yielded the rows one traversal alone yields, in that order,
\* and all of them once it is done.
C5_IndependentTraversals ==
    \A t \in 1..Len(its) :
        /\ Len(its[t].out) <= NumRows
        /\ its[t].out = SubSeq(SingleTraversal, 1, Len(its[t].out))
        /\ its[t].st = "done" => its[t].out = SingleTraversal

\* C5 witness: the second traversal ran to its end while the first, started before it,
\* is suspended after its first row, on a Selection with synthesized keys
C5_Witness ==
    /\ Len(its) = 2
    /\ its[1].st = "running" /\ Len(its[1].out) = 1
    /\ its[2].st = "done" /\ Len(its[2].out) = NumRows
    /\ Synthesized # {}

---------------------------------------------------------------------------
(* Claims about construction and row identity                              *)

\* the rows the Selections enumerate: (Selection, source row)
Projected == (1..Len(sels)) \X RowIds

\* C2: any two projected rows that come from different Selections, or from
\* the same Selection and distinct source rows, have different identities.
\* (checked under SpecNest)
C2_UniqueIdentity ==
    \A x \in Projected, y \in Projected :
        x # y => Identity(x[1], x[2]) # Identity(y[1], y[2])

KeptAsBefore == \A k \in 1..Len(sels) : Len(sels') >= k /\ sels'[k] = sels[k]

\* C7: an empty explicit column list fails with QueryError; a failed
\* construction returns no Selection, adds none and leaves the alias counter
\* as it was; a successful one gets the prefix "s" + the counter before it,
\* whatever failed before.
C7_FailedConstruction ==
    [][ /\ (last'.op = "select" /\ last'.what = <<>>) => last'.err = "QueryError"
        /\ (last'.op = "select" /\ last'.err # "") =>
              /\ selCnt' = selCnt
              /\ sels' = sels
              /\ last'.ret = -1
        /\ (last'.op = "select" /\ last'.err = "") =>
              /\ Len(sels') = Len(sels) + 1
              /\ KeptAsBefore
              /\ last'.ret = Len(sels')
              /\ sels'[Len(sels')].selPrefix = "s" \o ToString(selCnt) ]_vars

\* C7 witness: a column expression failed to compile after one Selection was built
C7_Witness ==
    /\ last.op = "select" /\ last.err = "CompileError" /\ Len(last.what) = 2
    /\ last.ret = -1 /\ selCnt = 1 /\ Len(sels) = 1

\* C10 as stated: no construction call changes the alias counter or the
\* columns and id lookup of an existing Selection.
C10_NothingChanges == [][ selCnt' = selCnt /\ KeptAsBefore ]_vars

\* C10 amended: a construction call leaves the columns and id lookup of
\* every existing Selection as they were; select('*'), the full-schema
\* construction, filter and a failed select leave the alias counter as it
\* was, and a successful select of an explicit column list adds one to it.
C10_OnlyExplicitSelectCounts ==
    [][ /\ KeptAsBefore
        /\ IF last'.op = "select" /\ last'.err = ""
           THEN selCnt' = selCnt + 1
           ELSE selCnt' = selCnt ]_vars

\* C10 witness: a full-schema Selection built after an explicit-list one, then filtered
C10_Witness ==
    /\ last.op = "filter" /\ last.err = "" /\ last.on = 2 /\ res.kind = "Eq"
    /\ selCnt = 1 /\ Len(sels) = 2 /\ sels[2].selPrefix = "" /\ sels[1].selPrefix = "s0"

---------------------------------------------------------------------------
(* Claims about the filter-plan builder (checked under SpecFilter)         *)

Done == pc = "done"

\* the predicate reaches the constant test of buildFilter (line 146)
NoIndexShortcut == pred.type # "absent" /\ pred.built.ok /\ pred.built.index = NoIndex

\* the predicate reaches the dispatch on the AST kind (line 154)
Dispatched == NoIndexShortcut /\ ~pred.built.isConstant

IsSelf(p) == p.kind = "Self" /\ p.rows = RowIds

IsAlwaysFalse(p) == p.kind = "False" /\ p.rows = {} /\ \A x \in RowIds : ~hasItem(p, x)

\* C1: a constant predicate without index, and a comparison of two constant
\* operands, filter to the Selection itself when true and to an Always-False
\* node (no row enumerated, hasItem false for every row) when false.
C1_ConstantFold ==
    Done =>
      /\ (NoIndexShortcut /\ pred.built.isConstant) =>
            IF ToBool(pred.built) THEN IsSelf(res) ELSE IsAlwaysFalse(res)
      /\ (NoIndexShortcut /\ pred.type = "binary_expr" /\ pred.operator \in CmpOps
            /\ BothConstant(pred)) =>
            IF GetNull(pred.built) THEN IsSelf(res) ELSE IsAlwaysFalse(res)

FilterA == filter(This, kids[1], <<>>)
FilterB == filter(This, kids[2], <<>>)

IsAndOr == pred.type = "binary_expr" /\ pred.operator \in BoolOps

\* C4: when filter(A AND B), filter(A) and filter(B) all return a plan, the
\* rows of filter(A AND B) are the rows yielded by both filter(A) and
\* filter(B), and the rows of filter(A OR B) are the rows yielded by either
\* (rows are sets of row identities, so each appears once).
C4_AndOrRows ==
    (Done /\ IsAndOr /\ ~IsError(res) /\ ~IsError(FilterA) /\ ~IsError(FilterB)) =>
        res.rows = IF pred.operator = "AND" THEN FilterA.rows \cap FilterB.rows
                   ELSE FilterA.rows \cup FilterB.rows

\* C4 witness: an OR whose left side folds to an Always-False node and whose right side
\* is an index lookup that yields some rows and not others
C4_Witness ==
    /\ Done /\ IsAndOr /\ pred.operator = "OR" /\ Dispatched
    /\ FilterA.kind = "False" /\ FilterB.kind = "Eq"
    /\ res.kind = "Or" /\ res.rows # {} /\ res.rows # RowIds

\* C6 as stated: filter(p) returns the Selection itself, nothing compiled,
\* when p is absent and when p has no property left after null-stripping.
C6_AbsentOrEmptyReturnsSelf ==
    (Done /\ pred.type \in {"absent", "empty"}) => (IsSelf(res) /\ ~res.compiled)

\* C6 amended: filter(p) returns the Selection itself, nothing compiled, when
\* p is absent; a p with no property left after null-stripping is compiled
\* by buildFilter like any other predicate.
C6_AbsentReturnsSelf ==
    Done => /\ pred.type = "absent" => (res = This /\ ~res.compiled)
            /\ pred.type = "empty" => res.compiled

\* C6 witness: filter(null)
C6_Witness == Done /\ pred.type = "absent" /\ res = This

\* C8 as stated: for l op r that reaches the operator dispatch with operands
\* not both constant, = / != / <> with an indexed l and a constant r give an
\* Equality (=) or Inequality (!=, <>) node keyed on l, symmetrically for an
\* indexed r and a constant l, and > < <= >= give a Brute-Force-Scan node.
C8_IndexBackedComparison ==
    (Done /\ Dispatched /\ pred.type = "binary_expr" /\ ~BothConstant(pred)) =>
      /\ (pred.operator \in EqOps /\ pred.lv.index = 1 /\ pred.rv.isConstant) =>
            /\ res.kind = IF pred.operator = "=" THEN "Eq" ELSE "Neq"
            /\ res.key = "left"
      /\ (pred.operator \in EqOps /\ pred.rv.index = 1 /\ pred.lv.isConstant) =>
            /\ res.kind = IF pred.operator = "=" THEN "Eq" ELSE "Neq"
            /\ res.key = "right"
      /\ pred.operator \in OrderOps => res.kind = "SeqScan"

IndexBacked == {"Eq", "Neq", "In", "NotIn"}

====
